---------------------------- MODULE Spec2Model ----------------------------
(***************************************************************************)
(* The quiz bot of src/src/bot.ts: chat events of a few users, the rows of *)
(* the remote sessions table, the in-process state (the chat library's     *)
(* per-user session object and the activeQuestions map) and the handlers,  *)
(* split at the awaits where two handlers of overlapping events can        *)
(* interleave.  bot.ts calls getOrCreateSession and activeQuestions but    *)
(* does not define them; they are taken from the file that defines them,   *)
(* src/unnamed/part_001.  The earlier, status-based bot of                 *)
(* src/unnamed/part_003 is a second specification, SpecStatus.             *)
(***************************************************************************)
EXTENDS Integers, Sequences, FiniteSets, TLC

(* ------------------------------ bounds -------------------------------- *)
MaxTasks == 2
MaxEvents == 3
MaxEventsWide == 4
MaxEventsShort == 2
\* The largest questions counter of the rows the summary is computed for.
MaxCount == 13
\* The largest choice index a button payload carries (the pattern allows 0..9).
MaxIndex == 2
MaxIdLen == 3
MaxChoices == 11

(* --------------------------- program constants ------------------------ *)
Null == -1
NoSession == 0
DefaultMaxQuestion == 10

Users == {1, 2}
NoUsername == "<none>"
\* ctx.from.username: user 1 has one, user 2 has none.
username(u) == IF u = 1 THEN "alice" ELSE NoUsername
\* ctx.from.username || 'unknown'
Handle(u) == IF username(u) = NoUsername THEN "unknown" ELSE username(u)
\* ctx.from.id.toString()
IdStr(u) == ToString(u)

Modes == {"mixed", "dev", "user"}
NoMode == "null"
NoStatus == "null"

(* The questions table: immutable rows. *)
QuestionIds == {"q1", "q2"}
NoQuestion == "none"
\* A question id that no row of the questions table has.
UnknownQuestion == "q0"
QuestionRow(q) ==
    IF q = "q1" THEN [choices |-> 2, answer_index |-> 0, tags |-> {"dev"}]
                ELSE [choices |-> 2, answer_index |-> 1, tags |-> {"user"}]

VARIABLES
    sessions,         \* the sessions table: row i has id i, created in order i
    tasks,            \* the handler invocations in flight, one per slot
    ctxSession,       \* ctx.session.sessionId of each user (in process memory)
    activeQuestions,  \* the activeQuestions map: session id -> question id
    lastReply,        \* the last message the bot sent: to whom and what
    served,           \* the question ids whose answer buttons each user holds
    instance,         \* the number of process restarts so far
    budget            \* the number of events (chat events, restarts) still to come

vars == <<sessions, tasks, ctxSession, activeQuestions, lastReply, served,
          instance, budget>>

Slots == 1..MaxTasks

IdleTask == [pc |-> "idle", kind |-> "none", user |-> 0, sid |-> NoSession,
             qid |-> NoQuestion, idx |-> 0, rq |-> 0, rc |-> 0,
             stale |-> FALSE]

NoReply == [to |-> 0, kind |-> "none", sid |-> NoSession, qid |-> NoQuestion,
            flag |-> FALSE, q |-> 0, c |-> 0, inst |-> 0]

Reply(u, kind, sid, qid, flag, q, c) ==
    [to |-> u, kind |-> kind, sid |-> sid, qid |-> qid, flag |-> flag, q |-> q,
     c |-> c, inst |-> instance]

ErrorReply(u, text) == Reply(u, text, NoSession, NoQuestion, FALSE, 0, 0)

\* A slip in the accuracy: the percentage is cut off, not rounded.
accuracyTruncated(questions, correct) ==
    IF questions > 0 THEN (100 * correct) \div questions ELSE 0

\* questions > 0 ? Math.round((correct / questions) * 100) : 0, for counters
\* 0 <= correct <= questions.  Math.round takes a half upwards; the
\* quotient's rounding error is far smaller than the distance of
\* 100 * correct / questions from a half unless it is one.
accuracy(questions, correct) ==
    IF questions > 0 THEN (200 * correct + questions) \div (2 * questions)
    ELSE 0

\* The summary a finish handler sends for a session row.
SummaryReply(u, sid, q, c) ==
    [to |-> u, kind |-> "summary", sid |-> sid, qid |-> NoQuestion,
     flag |-> FALSE, q |-> q, c |-> c, inst |-> instance,
     acc |-> accuracy(q, c)]

Max(S) == CHOOSE x \in S : \A y \in S : y <= x

\* .order('created_date', { ascending: false }).limit(1).single()
Latest(S) == IF S = {} THEN NoSession ELSE Max(S)

FreeSlot == IF \E t \in Slots : tasks[t].pc = "idle"
            THEN CHOOSE t \in Slots : tasks[t].pc = "idle" /\
                        \A t2 \in Slots : tasks[t2].pc = "idle" => t <= t2
            ELSE 0

CanDeliver == budget > 0

Fresh(n) ==
    /\ sessions = <<>>
    /\ tasks = [t \in Slots |-> IdleTask]
    /\ ctxSession = [u \in Users |-> NoSession]
    /\ activeQuestions = <<>>
    /\ lastReply = NoReply
    /\ served = [u \in Users |-> {}]
    /\ instance = 0
    /\ budget = n

Init == Fresh(MaxEvents)

InitWide == Fresh(MaxEventsWide)

InitShort == Fresh(MaxEventsShort)

(* ------------------------- persistence helpers ------------------------ *)

\* A slip in createSession: the chosen mode is left out of the row.
NewModeRowWithoutMode(u, mode) ==
    [tg_id |-> IdStr(u), tg_handle |-> Handle(u), questions |-> 0,
     correct |-> 0, mode |-> NoMode, max_question |-> DefaultMaxQuestion,
     status |-> NoStatus]

\* createSession's row (bot.ts): counters zeroed, the chosen mode.
NewModeRow(u, mode) ==
    [tg_id |-> IdStr(u), tg_handle |-> Handle(u), questions |-> 0,
     correct |-> 0, mode |-> mode, max_question |-> DefaultMaxQuestion,
     status |-> NoStatus]

\* getOrCreateSession's row (part_001): neither mode nor max_question written.
NewPlainRow(u) ==
    [tg_id |-> IdStr(u), tg_handle |-> Handle(u), questions |-> 0,
     correct |-> 0, mode |-> NoMode, max_question |-> Null,
     status |-> NoStatus]

\* The key getOrCreateSession looks the user's latest row up by.
LookupKey(u) == IdStr(u)

\* part_001 lines 80-86: the latest row whose tg_handle equals the key.
existingSession(u) ==
    Latest({i \in DOMAIN sessions : sessions[i].tg_handle = LookupKey(u)})

\* part_001 line 88: the test that decides between a new row and a resume.
WasUsed(row) == row.questions # Null

\* getOrCreateSession: TRUE when it inserts a row, FALSE when it resumes.
Inserts(u) ==
    LET e == existingSession(u)
    IN  IF e # NoSession /\ WasUsed(sessions[e]) THEN TRUE
        ELSE IF e # NoSession THEN FALSE
        ELSE TRUE

\* A slip in getOrCreateSession: when the insert fails, the user's latest
\* row is returned instead of null.
getOrCreateSessionFallsBack(u, ok) ==
    IF Inserts(u)
    THEN IF ok
         THEN [after |-> Append(sessions, NewPlainRow(u)),
               id |-> Len(sessions) + 1]
         ELSE [after |-> sessions,
               id |-> Latest({i \in DOMAIN sessions :
                                 sessions[i].tg_id = IdStr(u)})]
    ELSE [after |-> sessions, id |-> existingSession(u)]

\* A slip in getOrCreateSession: the select has no filter on the user, so
\* the latest row of the table is found and returned.
getOrCreateSessionLatestRow(u, ok) ==
    IF sessions # <<>>
    THEN [after |-> sessions, id |-> Len(sessions)]
    ELSE IF ok
         THEN [after |-> Append(sessions, NewPlainRow(u)),
               id |-> Len(sessions) + 1]
         ELSE [after |-> sessions, id |-> NoSession]

\* getOrCreateSession: the table after the call, and the id of the row it
\* returns (NoSession for null).  ok is the store's answer to the insert.
getOrCreateSession(u, ok) ==
    IF Inserts(u)
    THEN IF ok
         THEN [after |-> Append(sessions, NewPlainRow(u)),
               id |-> Len(sessions) + 1]
         ELSE [after |-> sessions, id |-> NoSession]
    ELSE [after |-> sessions, id |-> existingSession(u)]

\* A slip in getRandomQuestion: the tag filter is not applied.
CandidatesUnfiltered(mode) == QuestionIds

\* getRandomQuestion(mode): the rows the query returns.
Candidates(mode) ==
    IF mode = "mixed" THEN QuestionIds
    ELSE IF mode = NoMode THEN {q \in QuestionIds : QuestionRow(q).tags # {}}
    ELSE {q \in QuestionIds : mode \in QuestionRow(q).tags}

\* A slip in getRandomQuestion: a query that yields no rows is not noticed.
getRandomQuestionUnchecked(mode, qok) == Candidates(mode)

\* getRandomQuestion(mode): the questions it can return; none when the
\* query fails or yields no rows (qok is FALSE) or no row matches.
getRandomQuestion(mode, qok) == IF qok THEN Candidates(mode) ELSE {}

\* A slip in the arithmetic: the question is counted only when answered wrong.
ScoreAfterWrongOnly(rq, rc, isCorrect) ==
    [questions |-> rq + (IF isCorrect THEN 0 ELSE 1),
     correct |-> rc + (IF isCorrect THEN 1 ELSE 0)]

\* updateSessionScore's new counters from the counters it read.
ScoreAfter(rq, rc, isCorrect) ==
    [questions |-> rq + 1, correct |-> rc + (IF isCorrect THEN 1 ELSE 0)]

\* A slip in the update: only the questions column is written.
SetQuestionsOnly(sid, q, c) == [sessions EXCEPT ![sid].questions = q]

\* updateSessionScore's update: both columns in one statement.
SetCounters(sid, q, c) ==
    [sessions EXCEPT ![sid].questions = q, ![sid].correct = c]

Retire(t) == [tasks EXCEPT ![t] = IdleTask]

(* ------------------------------ handlers ------------------------------ *)

\* bot.command('start'): the mode menu.
StartCommand(u) ==
    /\ CanDeliver
    /\ budget' = budget - 1
    /\ lastReply' = Reply(u, "modeMenu", NoSession, NoQuestion, FALSE, 0, 0)
    /\ UNCHANGED <<sessions, tasks, ctxSession, activeQuestions, served, instance>>

\* bot.action(/^mode:(mixed|dev|user)$/)
ModeSelect(u, mode, ok, qok) ==
    /\ CanDeliver
    /\ budget' = budget - 1
    /\ IF ok
       THEN LET sid == Len(sessions) + 1
            IN  /\ sessions' = Append(sessions, NewModeRow(u, mode))
                /\ ctxSession' = [ctxSession EXCEPT ![u] = sid]
                /\ IF getRandomQuestion(mode, qok) # {}
                   THEN \E q \in getRandomQuestion(mode, qok) :
                          /\ lastReply' = Reply(u, "modeQuestion", sid, q, FALSE, 0, 0)
                          /\ served' = [served EXCEPT ![u] = @ \cup {q}]
                   ELSE /\ lastReply' = ErrorReply(u, "questionFetchError")
                        /\ UNCHANGED served
       ELSE /\ lastReply' = ErrorReply(u, "sessionCreateError")
            /\ UNCHANGED <<sessions, ctxSession, served>>
    /\ UNCHANGED <<tasks, activeQuestions, instance>>

\* bot.action(/^answer:(.+)_(\d)$/), up to the session lookup: the button of
\* a served question is pressed.
AnswerEvent(u, qid, idx) ==
    /\ CanDeliver
    /\ FreeSlot # 0
    /\ qid \in served[u]
    /\ idx \in 0..(QuestionRow(qid).choices - 1)
    /\ budget' = budget - 1
    /\ IF ctxSession[u] = NoSession
       THEN /\ lastReply' = ErrorReply(u, "sessionNotFound")
            /\ UNCHANGED tasks
       ELSE /\ tasks' = [tasks EXCEPT ![FreeSlot] =
                 [pc |-> "scoreRead", kind |-> "answer", user |-> u,
                  sid |-> ctxSession[u], qid |-> qid, idx |-> idx,
                  rq |-> 0, rc |-> 0,
                  stale |-> (lastReply.to = u /\ lastReply.kind = "feedback"
                             /\ lastReply.qid = qid)]]
            /\ UNCHANGED lastReply
    /\ UNCHANGED <<sessions, ctxSession, activeQuestions, served, instance>>

\* updateSessionScore: the select.
AnswerScoreRead(t) ==
    /\ tasks[t].pc = "scoreRead"
    /\ tasks' = [tasks EXCEPT ![t].pc = "scoreWrite",
                              ![t].rq = sessions[tasks[t].sid].questions,
                              ![t].rc = sessions[tasks[t].sid].correct]
    /\ UNCHANGED <<sessions, ctxSession, activeQuestions, lastReply, served,
                   instance, budget>>

IsCorrect(t) == tasks[t].idx = QuestionRow(tasks[t].qid).answer_index

\* updateSessionScore: the update.
AnswerScoreWrite(t) ==
    /\ tasks[t].pc = "scoreWrite"
    /\ LET n == ScoreAfter(tasks[t].rq, tasks[t].rc, IsCorrect(t))
       IN  sessions' = SetCounters(tasks[t].sid, n.questions, n.correct)
    /\ tasks' = [tasks EXCEPT ![t].pc = "feedback"]
    /\ UNCHANGED <<ctxSession, activeQuestions, lastReply, served, instance,
                   budget>>

\* The rest of the answer handler: re-read the row, pick the next question,
\* reply.
AnswerFeedback(t, qok) ==
    /\ tasks[t].pc \in {"feedback", "feedbackUnsaved"}
    /\ LET u == tasks[t].user
           row == sessions[tasks[t].sid]
       IN  lastReply' =
              IF getRandomQuestion(row.mode, qok) # {}
              THEN Reply(u, "feedback", tasks[t].sid, tasks[t].qid, IsCorrect(t),
                         row.questions, row.correct)
              ELSE ErrorReply(u, "nextQuestionError")
    /\ tasks' = Retire(t)
    /\ UNCHANGED <<sessions, ctxSession, activeQuestions, served, instance,
                   budget>>

\* bot.command('next') and bot.hears('Next'): resolve the session, then
\* updateSessionProgress(session.id, currentQuestions + 1, currentCorrect).
NextCommand(u, ok) ==
    /\ CanDeliver
    /\ budget' = budget - 1
    /\ LET after == getOrCreateSession(u, ok).after
           id == getOrCreateSession(u, ok).id
       IN /\ IF id = NoSession
             THEN /\ sessions' = after
                  /\ lastReply' = ErrorReply(u, "startFirst")
             ELSE LET rq == IF after[id].questions = Null THEN 0
                            ELSE after[id].questions
                      rc == IF after[id].correct = Null THEN 0
                            ELSE after[id].correct
                  IN  /\ sessions' = [after EXCEPT ![id].questions = rq + 1,
                                                   ![id].correct = rc]
                      /\ lastReply' = Reply(u, "progress", id, NoQuestion,
                                            FALSE, rq + 1, rc)
    /\ UNCHANGED <<tasks, ctxSession, activeQuestions, served, instance>>

\* bot.command('finish'), bot.hears('Finish'), bot.action('finish_command')
FinishEvent(u, ok) ==
    /\ CanDeliver
    /\ budget' = budget - 1
    /\ LET after == getOrCreateSession(u, ok).after
           id == getOrCreateSession(u, ok).id
       IN /\ sessions' = after
          /\ lastReply' =
                IF id = NoSession THEN ErrorReply(u, "noActiveSession")
                ELSE SummaryReply(u, id, after[id].questions,
                                  after[id].correct)
    /\ UNCHANGED <<tasks, ctxSession, activeQuestions, served, instance>>

\* bot.hears('Start') and bot.action('start_command')
StartAgain(u, ok) ==
    /\ CanDeliver
    /\ budget' = budget - 1
    /\ LET after == getOrCreateSession(u, ok).after
           id == getOrCreateSession(u, ok).id
       IN /\ sessions' = after
          /\ lastReply' =
                IF id = NoSession THEN ErrorReply(u, "sessionCreateError")
                ELSE Reply(u, "started", id, NoQuestion, FALSE, 0, 0)
    /\ UNCHANGED <<tasks, ctxSession, activeQuestions, served, instance>>

\* bot.action('next_command'): resolve the session, read it afresh, take the
\* prepared question or fetch and record a new one, send the prompt.
NextButton(u, ok, qok) ==
    /\ CanDeliver
    /\ budget' = budget - 1
    /\ LET after == getOrCreateSession(u, ok).after
           id == getOrCreateSession(u, ok).id
       IN /\ sessions' = after
          /\ IF id = NoSession
             THEN /\ lastReply' = ErrorReply(u, "startFirst")
                  /\ UNCHANGED <<activeQuestions, served>>
             ELSE IF id \in DOMAIN activeQuestions
             THEN /\ lastReply' = Reply(u, "nextQuestion", id,
                        activeQuestions[id], FALSE, after[id].questions,
                        after[id].correct)
                  /\ served' = [served EXCEPT ![u] = @ \cup {activeQuestions[id]}]
                  /\ UNCHANGED activeQuestions
             ELSE IF getRandomQuestion(after[id].mode, qok) # {}
             THEN \E q \in getRandomQuestion(after[id].mode, qok) :
                    /\ activeQuestions' = (id :> q) @@ activeQuestions
                    /\ lastReply' = Reply(u, "nextQuestion", id, q, FALSE,
                                          after[id].questions, after[id].correct)
                    /\ served' = [served EXCEPT ![u] = @ \cup {q}]
             ELSE /\ lastReply' = ErrorReply(u, "questionFetchError")
                  /\ UNCHANGED <<activeQuestions, served>>
    /\ UNCHANGED <<tasks, ctxSession, instance>>

\* The process stops and starts again: the handlers in flight are abandoned
\* and the process memory is new; the table and the user's chat stay.
Restart ==
    /\ CanDeliver
    /\ budget' = budget - 1
    /\ instance' = instance + 1
    /\ tasks' = [t \in Slots |-> IdleTask]
    /\ ctxSession' = [u \in Users |-> NoSession]
    /\ activeQuestions' = <<>>
    /\ UNCHANGED <<sessions, lastReply, served>>

Next ==
    \/ \E u \in Users : StartCommand(u)
    \/ \E u \in Users, mode \in Modes, ok \in BOOLEAN, qok \in BOOLEAN :
          ModeSelect(u, mode, ok, qok)
    \/ \E u \in Users, qid \in QuestionIds, idx \in 0..9 : AnswerEvent(u, qid, idx)
    \/ \E t \in Slots : AnswerScoreRead(t)
    \/ \E t \in Slots : AnswerScoreWrite(t)
    \/ \E t \in Slots, qok \in BOOLEAN : AnswerFeedback(t, qok)
    \/ \E u \in Users, ok \in BOOLEAN : NextCommand(u, ok)
    \/ \E u \in Users, ok \in BOOLEAN : FinishEvent(u, ok)
    \/ \E u \in Users, ok \in BOOLEAN : StartAgain(u, ok)
    \/ \E u \in Users, ok \in BOOLEAN, qok \in BOOLEAN : NextButton(u, ok, qok)
    \/ Restart

Spec == Init /\ [][Next]_vars

\* The same program with one more event to come.
SpecWide == InitWide /\ [][Next]_vars

\* The same program with one event fewer to come.
SpecShort == InitShort /\ [][Next]_vars

(* ---- store failures during scoring, payloads of no served button ----- *)

\* updateSessionScore: the select returns no row (store error); the update
\* is skipped and the function returns normally.
AnswerScoreReadFails(t) ==
    /\ tasks[t].pc = "scoreRead"
    /\ tasks' = [tasks EXCEPT ![t].pc = "feedbackUnsaved"]
    /\ UNCHANGED <<sessions, ctxSession, activeQuestions, lastReply, served,
                   instance, budget>>

\* updateSessionScore: the update is rejected by the store; its result is
\* not looked at and the function returns normally.
AnswerScoreWriteFails(t) ==
    /\ tasks[t].pc = "scoreWrite"
    /\ tasks' = [tasks EXCEPT ![t].pc = "feedbackUnsaved"]
    /\ UNCHANGED <<sessions, ctxSession, activeQuestions, lastReply, served,
                   instance, budget>>

\* The answer handler's second getSession returns nothing (store error):
\* the handler ends with an error message.
AnswerFeedbackFails(t) ==
    /\ tasks[t].pc \in {"feedback", "feedbackUnsaved"}
    /\ lastReply' = ErrorReply(tasks[t].user, "sessionDataError")
    /\ tasks' = Retire(t)
    /\ UNCHANGED <<sessions, ctxSession, activeQuestions, served, instance,
                   budget>>

\* getQuestionById: the row of the id, or nothing.
getQuestionById(qid) == IF qid \in QuestionIds THEN qid ELSE NoQuestion

\* bot.action(/^answer:(.+)_(\d)$/) on a payload that matches the pattern
\* but is of no button the question's row gives: an id without a row, or an
\* index past the row's choices.
StrayAnswerEvent(u, qid, idx) ==
    /\ CanDeliver
    /\ FreeSlot # 0
    /\ \/ qid = UnknownQuestion /\ idx = 0
       \/ qid \in served[u] /\ idx >= QuestionRow(qid).choices
    /\ budget' = budget - 1
    /\ IF getQuestionById(qid) = NoQuestion
       THEN /\ lastReply' = ErrorReply(u, "questionRetrieveError")
            /\ UNCHANGED tasks
       ELSE IF ctxSession[u] = NoSession
       THEN /\ lastReply' = ErrorReply(u, "sessionNotFound")
            /\ UNCHANGED tasks
       ELSE /\ tasks' = [tasks EXCEPT ![FreeSlot] =
                 [pc |-> "scoreRead", kind |-> "answer", user |-> u,
                  sid |-> ctxSession[u], qid |-> qid, idx |-> idx,
                  rq |-> 0, rc |-> 0, stale |-> FALSE]]
            /\ UNCHANGED lastReply
    /\ UNCHANGED <<sessions, ctxSession, activeQuestions, served, instance>>

NextFaulty ==
    \/ Next
    \/ \E t \in Slots : AnswerScoreReadFails(t)
    \/ \E t \in Slots : AnswerScoreWriteFails(t)
    \/ \E t \in Slots : AnswerFeedbackFails(t)
    \/ \E u \in Users, qid \in QuestionIds \cup {UnknownQuestion},
          idx \in 0..MaxIndex : StrayAnswerEvent(u, qid, idx)

SpecFaulty == Init /\ [][NextFaulty]_vars

(* ------------- the finish summary over stored counters ---------------- *)

\* A table with one session of user 1 that has counters within the bound.
InitAccuracy ==
    /\ \E q \in 0..MaxCount, c \in 0..MaxCount :
          /\ c <= q
          /\ sessions = <<[NewModeRow(1, "mixed") EXCEPT !.questions = q,
                                                        !.correct = c]>>
    /\ tasks = [t \in Slots |-> IdleTask]
    /\ ctxSession = [u \in Users |-> NoSession]
    /\ activeQuestions = <<>>
    /\ lastReply = NoReply
    /\ served = [u \in Users |-> {}]
    /\ instance = 0
    /\ budget = 1

\* The finish handler from the point where it holds the session row sid:
\* the counters, the accuracy, the summary.
FinishSummary(u, sid) ==
    /\ CanDeliver
    /\ sessions[sid].tg_id = IdStr(u)
    /\ budget' = budget - 1
    /\ lastReply' = SummaryReply(u, sid, sessions[sid].questions,
                                 sessions[sid].correct)
    /\ UNCHANGED <<sessions, tasks, ctxSession, activeQuestions, served,
                   instance>>

NextAccuracy == \E u \in Users, sid \in DOMAIN sessions : FinishSummary(u, sid)

SpecAccuracy == InitAccuracy /\ [][NextAccuracy]_vars

(* --------- the status-based bot (src/unnamed/part_003, line 40 on) ----- *)

StatusKinds == {"start", "next", "finish"}

\* The row getOrCreateSession inserts there.
NewStatusRow(u) ==
    [user_id |-> u, telegram_username |-> Handle(u), current_step |-> 1,
     status |-> "active"]

\* .eq('user_id', ctx.from.id).eq('status', 'active')
activeSessions(u) ==
    {i \in DOMAIN sessions :
        sessions[i].user_id = u /\ sessions[i].status = "active"}

\* .single(): the row when exactly one matches, no data otherwise.
single(S) == IF Cardinality(S) = 1 THEN CHOOSE i \in S : TRUE ELSE NoSession

\* What the handler sends once it holds its session.
StatusReplyKind(kind) ==
    IF kind = "start" THEN "started"
    ELSE IF kind = "next" THEN "step" ELSE "completed"

\* A start, next or finish event (command, keyboard button or inline
\* button) arrives and its handler calls getOrCreateSession.
StatusEvent(u, kind) ==
    /\ CanDeliver
    /\ FreeSlot # 0
    /\ budget' = budget - 1
    /\ tasks' = [tasks EXCEPT ![FreeSlot] =
          [IdleTask EXCEPT !.pc = "select", !.kind = kind, !.user = u]]
    /\ UNCHANGED <<sessions, ctxSession, activeQuestions, lastReply, served,
                   instance>>

\* getOrCreateSession: the select of the user's active session.
StatusSelect(t) ==
    /\ tasks[t].pc = "select"
    /\ LET e == single(activeSessions(tasks[t].user))
       IN  tasks' = IF e # NoSession
                    THEN [tasks EXCEPT ![t].pc = "act", ![t].sid = e,
                                       ![t].rq = sessions[e].current_step]
                    ELSE [tasks EXCEPT ![t].pc = "insert"]
    /\ UNCHANGED <<sessions, ctxSession, activeQuestions, lastReply, served,
                   instance, budget>>

\* getOrCreateSession: the insert of a new active session.
StatusInsert(t, ok) ==
    /\ tasks[t].pc = "insert"
    /\ IF ok
       THEN /\ sessions' = Append(sessions, NewStatusRow(tasks[t].user))
            /\ tasks' = [tasks EXCEPT ![t].pc = "act",
                                      ![t].sid = Len(sessions) + 1,
                                      ![t].rq = 1]
            /\ UNCHANGED lastReply
       ELSE /\ lastReply' = ErrorReply(tasks[t].user, "sessionCreateError")
            /\ tasks' = Retire(t)
            /\ UNCHANGED sessions
    /\ UNCHANGED <<ctxSession, activeQuestions, served, instance, budget>>

\* updateSessionStep: the update of the row's step.
updateSessionStep(sid, step) == [sessions EXCEPT ![sid].current_step = step]

\* A slip in completeSession: the completion is counted as a step as well.
completeSessionCountsStep(sid) ==
    [sessions EXCEPT ![sid].status = "completed", ![sid].current_step = @ + 1]

\* completeSession: the update of the row's status.
completeSession(sid) == [sessions EXCEPT ![sid].status = "completed"]

\* The handler's own write and reply: nothing for start, updateSessionStep
\* for next, completeSession for finish.
StatusAct(t) ==
    /\ tasks[t].pc = "act"
    /\ sessions' =
          IF tasks[t].kind = "next"
          THEN updateSessionStep(tasks[t].sid, tasks[t].rq + 1)
          ELSE IF tasks[t].kind = "finish"
          THEN completeSession(tasks[t].sid)
          ELSE sessions
    /\ lastReply' = Reply(tasks[t].user, StatusReplyKind(tasks[t].kind),
                          tasks[t].sid, NoQuestion, FALSE,
                          IF tasks[t].kind = "next" THEN tasks[t].rq + 1
                          ELSE tasks[t].rq, 0)
    /\ tasks' = Retire(t)
    /\ UNCHANGED <<ctxSession, activeQuestions, served, instance, budget>>

NextStatus ==
    \/ \E u \in Users, kind \in StatusKinds : StatusEvent(u, kind)
    \/ \E t \in Slots : StatusSelect(t)
    \/ \E t \in Slots, ok \in BOOLEAN : StatusInsert(t, ok)
    \/ \E t \in Slots : StatusAct(t)

SpecStatus == Init /\ [][NextStatus]_vars

(* ------------------------------ properties ---------------------------- *)

\* C1: at most one session row of a user has status active, whatever
\* events of that user overlap.
C1_OneActiveSessionPerUser ==
    \A u \in Users : Cardinality(activeSessions(u)) <= 1

\* The user's most recently created session row (by tg_id).
LatestOf(u) == Latest({i \in DOMAIN sessions : sessions[i].tg_id = IdStr(u)})

\* No handler of user u is in flight.
Quiet(u) == \A t \in Slots : tasks[t].pc = "idle" \/ tasks[t].user # u

\* Task t performs updateSessionScore's update in this step.
Writes(t) == tasks[t].pc = "scoreWrite" /\ tasks'[t].pc = "feedback"

CountersKept(sid) ==
    /\ sessions'[sid].questions = sessions[sid].questions
    /\ sessions'[sid].correct = sessions[sid].correct

\* An evaluation of user u's answer to qid is taken up on session sid in
\* this step.
TakenUp(u, qid, sid) ==
    \E t \in Slots :
        /\ tasks[t].pc = "idle"
        /\ tasks'[t].pc = "scoreRead"
        /\ tasks'[t].user = u
        /\ tasks'[t].qid = qid
        /\ tasks'[t].sid = sid

\* C2: two concurrent answer events for the same served question of the
\* same session count once: when an evaluation writes the counters while
\* another evaluation of the same question and session has already written
\* them and is still running, the counters do not move a second time.
C2_ConcurrentAnswersCountOnce ==
    [][\A t \in Slots :
         (/\ Writes(t)
          /\ \E t2 \in Slots \ {t} :
                /\ tasks[t2].kind = "answer"
                /\ tasks[t2].pc = "feedback"
                /\ tasks[t2].user = tasks[t].user
                /\ tasks[t2].sid = tasks[t].sid
                /\ tasks[t2].qid = tasks[t].qid)
         => CountersKept(tasks[t].sid)]_vars

\* C3: no counter update is lost: the update of an evaluation that runs
\* concurrently with an evaluation of a different served question on the
\* same session raises questions by exactly one over the stored value, and
\* correct by one exactly when its answer is correct.
C3_NoLostUpdate ==
    [][\A t \in Slots :
         (/\ Writes(t)
          /\ \E t2 \in Slots \ {t} :
                /\ tasks[t2].kind = "answer"
                /\ tasks[t2].sid = tasks[t].sid
                /\ tasks[t2].qid # tasks[t].qid)
         => /\ sessions'[tasks[t].sid].questions =
                  sessions[tasks[t].sid].questions + 1
            /\ sessions'[tasks[t].sid].correct =
                  sessions[tasks[t].sid].correct +
                     (IF IsCorrect(t) THEN 1 ELSE 0)]_vars

\* C4: every session row has correct <= questions, in every reachable state.
C4_CorrectAtMostQuestions ==
    \A i \in DOMAIN sessions : sessions[i].correct <= sessions[i].questions

\* Two answers have been evaluated as correct on one session.
C4_Witness == \E i \in DOMAIN sessions : sessions[i].correct = 2

\* C5: when the last message is a question served to user u for session S
\* by this process and u's next event is an answer to it, the evaluation is
\* taken up for that question on session S.
C5_AnswerScoresServedSession ==
    [][\A u \in Users, qid \in QuestionIds, idx \in 0..9 :
         (/\ lastReply.to = u
          /\ lastReply.kind \in {"modeQuestion", "nextQuestion"}
          /\ lastReply.qid = qid
          /\ lastReply.inst = instance
          /\ Quiet(u)
          /\ AnswerEvent(u, qid, idx))
         => TakenUp(u, qid, lastReply.sid)]_vars

\* C6: an answer event for a question whose evaluation has completed (the
\* user holds its feedback and presses the answer button again) changes
\* neither counter of the session.
C6_StaleAnswerChangesNothing ==
    [][\A t \in Slots :
         (Writes(t) /\ tasks[t].stale) => CountersKept(tasks[t].sid)]_vars

\* Resolution of the session of user u by one of the handlers that call
\* getOrCreateSession and leave the counters alone, the store answering.
Resolves(u) ==
    \/ FinishEvent(u, TRUE)
    \/ StartAgain(u, TRUE)
    \/ NextButton(u, TRUE, TRUE)

\* C7: when the user's most recent session has recorded no question,
\* session resolution returns that session and inserts no row.
C7_ResumeUnusedSession ==
    [][\A u \in Users :
         (/\ LatestOf(u) # NoSession
          /\ sessions[LatestOf(u)].questions = 0
          /\ Resolves(u))
         => /\ Len(sessions') = Len(sessions)
            /\ lastReply'.sid = LatestOf(u)]_vars

\* C8: when the user has no session, or the most recent one has recorded a
\* question, session resolution appends exactly one row with questions = 0,
\* correct = 0, a mode of the enumeration and status active, returns it,
\* and leaves the earlier rows as they were.
C8_FreshSessionRow ==
    [][\A u \in Users :
         (/\ \/ LatestOf(u) = NoSession
             \/ sessions[LatestOf(u)].questions >= 1
          /\ Resolves(u))
         => /\ Len(sessions') = Len(sessions) + 1
            /\ SubSeq(sessions', 1, Len(sessions)) = sessions
            /\ sessions'[Len(sessions')].questions = 0
            /\ sessions'[Len(sessions')].correct = 0
            /\ sessions'[Len(sessions')].mode \in Modes
            /\ sessions'[Len(sessions')].status = "active"
            /\ lastReply'.sid = Len(sessions')]_vars

\* C9: a question served for session S by a mode selection is still
\* evaluated on S when the process restarted before the answer arrived.
C9_PairingSurvivesRestart ==
    [][\A u \in Users, qid \in QuestionIds, idx \in 0..9 :
         (/\ lastReply.to = u
          /\ lastReply.kind = "modeQuestion"
          /\ lastReply.qid = qid
          /\ lastReply.inst < instance
          /\ AnswerEvent(u, qid, idx))
         => TakenUp(u, qid, lastReply.sid)]_vars

\* C10: every entry of activeQuestions names a stored question and a
\* session that is the latest of its user and not completed.
C10_PairingsAreLive ==
    \A sid \in DOMAIN activeQuestions :
        /\ activeQuestions[sid] \in QuestionIds
        /\ sid \in DOMAIN sessions
        /\ \E u \in Users : sessions[sid].tg_id = IdStr(u) /\ sid = LatestOf(u)
        /\ sessions[sid].status # "completed"

\* C11: the update of an answer evaluation raises questions of its session
\* by exactly 1, raises correct by exactly 1 when the answer matches the
\* question's correct answer and leaves it unchanged otherwise, and changes
\* no other field of the row and no other row.
C11_AnswerIncrementsByOne ==
    [][\A t \in Slots :
         Writes(t)
         => sessions' =
               [sessions EXCEPT
                  ![tasks[t].sid].questions = @ + 1,
                  ![tasks[t].sid].correct =
                      @ + (IF IsCorrect(t) THEN 1 ELSE 0)]]_vars

\* C12: a session row whose status is completed is not changed by any
\* later step, whichever event the step belongs to and whenever that event
\* resolved the session.
C12_CompletedIsImmutable ==
    [][\A i \in DOMAIN sessions :
         sessions[i].status = "completed" => sessions'[i] = sessions[i]]_vars

\* C13: a finish event leaves the session it resolved with status
\* completed, and a start event that follows the finish summary gets a
\* newly created session, not that one.
C13_FinishCompletesSession ==
    [][\A u \in Users :
         /\ FinishEvent(u, TRUE)
               => sessions'[lastReply'.sid].status = "completed"
         /\ (/\ lastReply.to = u
             /\ lastReply.kind = "summary"
             /\ StartAgain(u, TRUE))
               => /\ Len(sessions') = Len(sessions) + 1
                  /\ lastReply'.sid = Len(sessions')
                  /\ lastReply'.sid # lastReply.sid]_vars

\* Task t runs completeSession in this step.
Completes(t) ==
    /\ tasks[t].pc = "act"
    /\ tasks[t].kind = "finish"
    /\ tasks'[t].pc = "idle"

\* C14: every call of completeSession leaves its session with status
\* completed, is answered with the completion message and not an error, and
\* changes nothing else in the table: on a session that is completed
\* already it changes nothing at all.
C14_CompletionIdempotent ==
    [][\A t \in Slots :
         Completes(t)
         => /\ sessions' =
                  [sessions EXCEPT ![tasks[t].sid].status = "completed"]
            /\ sessions[tasks[t].sid].status = "completed"
                  => sessions' = sessions
            /\ lastReply'.kind = "completed"
            /\ lastReply'.to = tasks[t].user]_vars

\* One completion of a session has been answered and a second handler has
\* resolved the same session and completes it again.
C14_Witness ==
    /\ lastReply.kind = "completed"
    /\ sessions[lastReply.sid].status = "completed"
    /\ \E t \in Slots :
          /\ tasks[t].pc = "act"
          /\ tasks[t].kind = "finish"
          /\ tasks[t].sid = lastReply.sid

\* An event other than a mode selection or a start arrives from user u.
OtherEvent(u) ==
    \/ \E ok \in BOOLEAN : NextCommand(u, ok)
    \/ \E ok \in BOOLEAN : FinishEvent(u, ok)
    \/ \E ok \in BOOLEAN, qok \in BOOLEAN : NextButton(u, ok, qok)
    \/ \E qid \in QuestionIds, idx \in 0..9 : AnswerEvent(u, qid, idx)

\* C15: while the mode menu of a start event is the last thing user u got,
\* a next, answer or finish event of u serves no question, creates no
\* session and changes no counter.
C15_AwaitingModeHolds ==
    [][\A u \in Users :
         (/\ lastReply.to = u
          /\ lastReply.kind = "modeMenu"
          /\ Quiet(u)
          /\ OtherEvent(u))
         => /\ sessions' = sessions
            /\ served' = served
            /\ lastReply'.qid = NoQuestion]_vars

\* The latest session of user u that a mode selection created.
LatestModeSession(u) ==
    Latest({i \in DOMAIN sessions :
               sessions[i].tg_id = IdStr(u) /\ sessions[i].mode \in Modes})

\* C16: a mode selection whose insert succeeds appends exactly one row, of
\* the user, with the selected mode, questions = 0 and correct = 0, leaves
\* every earlier row as it was and stores the new id as the user's session;
\* and every answer evaluation taken up for a user is taken up on the
\* session of the user's latest mode selection.
C16_ModeSelectionCreatesSession ==
    [][/\ \A u \in Users, mode \in Modes, qok \in BOOLEAN :
            ModeSelect(u, mode, TRUE, qok)
            => /\ Len(sessions') = Len(sessions) + 1
               /\ SubSeq(sessions', 1, Len(sessions)) = sessions
               /\ sessions'[Len(sessions')].tg_id = IdStr(u)
               /\ sessions'[Len(sessions')].mode = mode
               /\ sessions'[Len(sessions')].questions = 0
               /\ sessions'[Len(sessions')].correct = 0
               /\ ctxSession'[u] = Len(sessions')
       /\ \A u \in Users, qid \in QuestionIds, sid \in DOMAIN sessions :
            TakenUp(u, qid, sid) => sid = LatestModeSession(u)]_vars

\* A user who had a session selected a mode again, and an answer has been
\* scored on the new session.
C16_Witness ==
    \E t \in Slots :
        /\ tasks[t].pc = "feedback"
        /\ tasks[t].sid = LatestModeSession(tasks[t].user)
        /\ tasks[t].sid = ctxSession[tasks[t].user]
        /\ sessions[tasks[t].sid].questions = 1
        /\ \E i \in 1..(tasks[t].sid - 1) :
              sessions[i].tg_id = IdStr(tasks[t].user)

\* The insert of a session row fails in a handler of user u.
CreationFails(u) ==
    \/ \E mode \in Modes, qok \in BOOLEAN : ModeSelect(u, mode, FALSE, qok)
    \/ /\ Inserts(u)
       /\ \/ NextCommand(u, FALSE)
          \/ FinishEvent(u, FALSE)
          \/ StartAgain(u, FALSE)
          \/ \E qok \in BOOLEAN : NextButton(u, FALSE, qok)

\* The messages a handler sends when it has no session.
NoSessionReplies == {"sessionCreateError", "startFirst", "noActiveSession"}

\* C17: when the insert of a session row fails, the handler sends the user
\* an error message, serves no question, records no pairing, stores no
\* session id and leaves the table as it was.
C17_CreationFailureStops ==
    [][\A u \in Users :
         CreationFails(u)
         => /\ lastReply'.to = u
            /\ lastReply'.kind \in NoSessionReplies
            /\ lastReply'.qid = NoQuestion
            /\ served' = served
            /\ activeQuestions' = activeQuestions
            /\ ctxSession' = ctxSession
            /\ sessions' = sessions]_vars

\* A user who has a session and holds a served question was told that the
\* creation of a session failed.
C17_Witness ==
    /\ lastReply.kind \in NoSessionReplies
    /\ lastReply.to \in Users
    /\ LatestOf(lastReply.to) # NoSession
    /\ served[lastReply.to] # {}

\* The answer handler of task t ends in this step.
Ends(t) ==
    /\ tasks[t].kind = "answer"
    /\ tasks'[t].pc = "idle"
    /\ instance' = instance

\* C18: when the select or the update of updateSessionScore failed, the
\* answer handler ends with an error message to the user and sends no
\* feedback that announces a score.
C18_FailedScoreNotReported ==
    [][\A t \in Slots :
         (tasks[t].pc = "feedbackUnsaved" /\ Ends(t))
         => /\ lastReply'.to = tasks[t].user
            /\ lastReply'.kind # "feedback"]_vars

\* The messages that reject an answer event.
RejectReplies == {"questionRetrieveError", "answerIndexError",
                  "sessionNotFound"}

\* C19: an answer event whose payload names a question id without a row,
\* or a choice index past the choices of the question, is answered with an
\* error message and starts no evaluation; no update of an evaluation with
\* such an index changes a counter.
C19_InvalidPayloadRejected ==
    [][/\ \A u \in Users, qid \in QuestionIds \cup {UnknownQuestion},
             idx \in 0..MaxIndex :
            StrayAnswerEvent(u, qid, idx)
            => /\ tasks' = tasks
               /\ lastReply'.to = u
               /\ lastReply'.kind \in RejectReplies
               /\ activeQuestions' = activeQuestions
       /\ \A t \in Slots :
            (Writes(t) /\ tasks[t].idx >= QuestionRow(tasks[t].qid).choices)
            => CountersKept(tasks[t].sid)]_vars

\* C20: an answer event of a user for whom the process holds no session to
\* resolve a question for changes no session row and is answered with a
\* fresh question, which is recorded as a pairing.
C20_UnresolvedAnswerRecovers ==
    [][\A u \in Users, qid \in QuestionIds, idx \in 0..9 :
         (ctxSession[u] = NoSession /\ AnswerEvent(u, qid, idx))
         => /\ sessions' = sessions
            /\ lastReply'.to = u
            /\ lastReply'.qid \in QuestionIds
            /\ \E sid \in DOMAIN activeQuestions' :
                  activeQuestions'[sid] = lastReply'.qid]_vars

\* C21: no step leaves a session half-updated: a step either leaves the
\* pair (questions, correct) of a session as it was, or it is the update of
\* an answer evaluation on that session and stores the whole pair that the
\* evaluation computed; abandoning the handlers in flight (a restart)
\* changes no row.
C21_NoHalfUpdate ==
    [][/\ \A i \in DOMAIN sessions :
            \/ CountersKept(i)
            \/ \E t \in Slots :
                  /\ Writes(t)
                  /\ tasks[t].sid = i
                  /\ sessions'[i].questions = tasks[t].rq + 1
                  /\ sessions'[i].correct =
                        tasks[t].rc + (IF IsCorrect(t) THEN 1 ELSE 0)
       /\ instance' # instance => sessions' = sessions]_vars

\* An evaluation of a correct answer was abandoned by a restart after its
\* update and before its feedback.
C21_Witness ==
    /\ instance = 1
    /\ lastReply.kind = "modeQuestion"
    /\ sessions[lastReply.sid].questions = 1
    /\ sessions[lastReply.sid].correct = 1

\* The messages that carry a question with its answer buttons.
Prompts == {"modeQuestion", "nextQuestion"}

\* C22: for every mode other than mixed, getRandomQuestion returns only
\* questions whose tags contain the mode, for mixed it can return every
\* stored question, and what it returns is a stored question: so is every
\* question served for a session of such a mode.
C22_ModeFilter ==
    /\ \A mode \in Modes :
          /\ Candidates(mode) \subseteq QuestionIds
          /\ mode # "mixed"
                => \A q \in Candidates(mode) : mode \in QuestionRow(q).tags
       /\ Candidates("mixed") = QuestionIds
    /\ lastReply.kind \in Prompts
          => /\ lastReply.qid \in QuestionIds
             /\ sessions[lastReply.sid].mode \in Modes \ {"mixed"}
                   => sessions[lastReply.sid].mode
                         \in QuestionRow(lastReply.qid).tags

\* A question was served for a session of mode dev.
C22_Witness ==
    /\ lastReply.kind \in Prompts
    /\ sessions[lastReply.sid].mode = "dev"
    /\ lastReply.qid = "q1"

\* A handler of user u calls getRandomQuestion in this step to serve a
\* question, and the call returns nothing.
NoQuestionFound(u) ==
    \/ \E mode \in Modes : ModeSelect(u, mode, TRUE, FALSE)
    \/ \E ok \in BOOLEAN :
          /\ NextButton(u, ok, FALSE)
          /\ getOrCreateSession(u, ok).id # NoSession
          /\ getOrCreateSession(u, ok).id \notin DOMAIN activeQuestions
    \/ \E t \in Slots :
          /\ tasks[t].pc = "feedback"
          /\ tasks[t].user = u
          /\ AnswerFeedback(t, FALSE)

\* The messages a handler sends when getRandomQuestion returned nothing.
NoQuestionReplies == {"questionFetchError", "nextQuestionError"}

\* C23: when getRandomQuestion returns no question (the query yields no
\* rows), the calling handler sends the user a message that says so, serves
\* no question and records no pairing.
C23_NoQuestionAvailable ==
    [][\A u \in Users :
         NoQuestionFound(u)
         => /\ lastReply'.to = u
            /\ lastReply'.kind \in NoQuestionReplies
            /\ lastReply'.qid = NoQuestion
            /\ served' = served
            /\ activeQuestions' = activeQuestions]_vars

\* A user with a session was told that no question could be fetched.
C23_Witness ==
    /\ lastReply.kind \in NoQuestionReplies
    /\ lastReply.to \in Users
    /\ LatestOf(lastReply.to) # NoSession

\* C24: the accuracy of a finish summary for counters 0 <= correct <=
\* questions is 0 when questions = 0 and otherwise an integer nearest to
\* 100 * correct / questions (71 for 5 of 7), and lies between 0 and 100.
C24_AccuracyRounded ==
    lastReply.kind = "summary"
    => /\ lastReply.acc \in 0..100
       /\ lastReply.q = 0 => lastReply.acc = 0
       /\ lastReply.q > 0
             => /\ 2 * (100 * lastReply.c - lastReply.acc * lastReply.q)
                      <= lastReply.q
                /\ 2 * (lastReply.acc * lastReply.q - 100 * lastReply.c)
                      <= lastReply.q
       /\ (lastReply.q = 7 /\ lastReply.c = 5) => lastReply.acc = 71

\* The summary of a session with 5 correct answers to 7 questions.
C24_Witness ==
    /\ lastReply.kind = "summary"
    /\ lastReply.q = 7
    /\ lastReply.c = 5
    /\ lastReply.acc = 71

\* C25: after a mode selection 'mixed' and a wrong answer to the question
\* served, the feedback reports 0 correct of 1 for the session of the mode
\* selection, and the next event that follows serves a question for that
\* same session, with counters still 1 and 0 and no further row, and
\* records the question served as the session's pairing.
C25_EndToEnd ==
    [][\A u \in Users :
         (/\ Len(sessions) = 1
          /\ sessions[1].mode = "mixed"
          /\ sessions[1].questions = 1
          /\ lastReply.to = u
          /\ lastReply.kind = "feedback"
          /\ lastReply.sid = 1
          /\ ~lastReply.flag
          /\ Quiet(u)
          /\ NextButton(u, TRUE, TRUE))
         => /\ lastReply.q = 1
            /\ lastReply.c = 0
            /\ sessions' = sessions
            /\ lastReply'.kind = "nextQuestion"
            /\ lastReply'.sid = 1
            /\ lastReply'.q = 1
            /\ lastReply'.c = 0
            /\ 1 \in DOMAIN activeQuestions'
            /\ activeQuestions'[1] = lastReply'.qid]_vars

\* C26: an answer evaluation that has written the counters ends with the
\* feedback message to its user, carrying the correctness flag of the
\* answer and the counters of the session, and not with an error message.
C26_FeedbackFollowsScore ==
    [][\A t \in Slots :
         (tasks[t].pc = "feedback" /\ Ends(t))
         => /\ lastReply'.to = tasks[t].user
            /\ lastReply'.kind = "feedback"
            /\ lastReply'.flag = IsCorrect(t)
            /\ lastReply'.q = sessions[tasks[t].sid].questions
            /\ lastReply'.c = sessions[tasks[t].sid].correct]_vars

\* C27: when an answer evaluation ends, no pairing of a session of its
\* user refers to the evaluated question any longer.
C27_PairingConsumed ==
    [][\A t \in Slots :
         (tasks[t].pc = "feedback" /\ Ends(t))
         => \A sid \in DOMAIN activeQuestions' :
               sessions[sid].tg_id = IdStr(tasks[t].user)
               => activeQuestions'[sid] # tasks[t].qid]_vars

\* C28: the next event that follows the feedback of an evaluation serves
\* the question paired with the evaluated session, and a next event that
\* follows a served question serves that question again and changes no
\* pairing and no row.
C28_NextServesPairedQuestion ==
    [][\A u \in Users :
         /\ (/\ lastReply.to = u
             /\ lastReply.kind = "feedback"
             /\ Quiet(u)
             /\ NextButton(u, TRUE, TRUE))
            => /\ lastReply.sid \in DOMAIN activeQuestions
               /\ lastReply'.sid = lastReply.sid
               /\ lastReply'.qid = activeQuestions[lastReply.sid]
         /\ (/\ lastReply.to = u
             /\ lastReply.kind = "nextQuestion"
             /\ Quiet(u)
             /\ NextButton(u, TRUE, TRUE))
            => /\ lastReply'.qid = lastReply.qid
               /\ activeQuestions' = activeQuestions
               /\ sessions' = sessions]_vars

\* C29: while the process holds the session of the user's mode selection,
\* a next or finish event of the user resolves that session and inserts no
\* row: the prompt or the summary it sends is of the session that the
\* user's answers are scored on.
C29_OneSessionPerRound ==
    [][\A u \in Users :
         (/\ ctxSession[u] # NoSession
          /\ Quiet(u)
          /\ \/ NextCommand(u, TRUE)
             \/ FinishEvent(u, TRUE)
             \/ NextButton(u, TRUE, TRUE))
         => /\ Len(sessions') = Len(sessions)
            /\ lastReply'.sid = ctxSession[u]]_vars

\* A navigation event of user u: start, next or finish, as a command, a
\* keyboard button or an inline button.
Navigates(u) ==
    \/ StartCommand(u)
    \/ \E ok \in BOOLEAN : NextCommand(u, ok)
    \/ \E ok \in BOOLEAN : FinishEvent(u, ok)
    \/ \E ok \in BOOLEAN : StartAgain(u, ok)
    \/ \E ok \in BOOLEAN, qok \in BOOLEAN : NextButton(u, ok, qok)

\* C30: a navigation event evaluates no answer and so leaves questions and
\* correct of every session as they were; a row it inserts has both at 0.
C30_NavigationKeepsCounters ==
    [][\A u \in Users :
         Navigates(u)
         => \A i \in DOMAIN sessions' :
               IF i \in DOMAIN sessions
               THEN CountersKept(i)
               ELSE /\ sessions'[i].questions = 0
                    /\ sessions'[i].correct = 0]_vars

-----------------------------------------------------------------------------
\* The answer payload: createChoicesKeyboard writes it, the pattern of the
\* answer handler reads it.  A payload is a sequence of characters.

IdChars == {"q", "_", "7"}

DigitChars == <<"0", "1", "2", "3", "4", "5", "6", "7", "8", "9">>

AnswerPrefix == <<"a", "n", "s", "w", "e", "r", ":">>

\* The question ids: the non-empty character sequences up to MaxIdLen.
PayloadIds == UNION {[1..n -> IdChars] : n \in 1..MaxIdLen}

\* ${index}: the decimal digits of a non-negative integer.
RECURSIVE ToDecimal(_)
ToDecimal(n) ==
    IF n < 10 THEN <<DigitChars[n + 1]>>
    ELSE ToDecimal(n \div 10) \o <<DigitChars[(n % 10) + 1]>>

\* `answer:${questionId}_${index}`
answerPayload(questionId, index) ==
    AnswerPrefix \o questionId \o <<"_">> \o ToDecimal(index)

\* createChoicesKeyboard: one button per choice, by index.
createChoicesKeyboard(choices, questionId) ==
    [index \in 0..(choices - 1) |-> answerPayload(questionId, index)]

IsDigit(ch) == \E d \in 1..10 : DigitChars[d] = ch

\* parseInt of one digit character.
parseInt(ch) == (CHOOSE d \in 1..10 : DigitChars[d] = ch) - 1

\* /^answer:(.+)_(\d)$/ : the payload starts with the prefix and ends with
\* an underscore and exactly one digit; whatever lies between, at least one
\* character, is the first group (the pattern is anchored at both ends, so
\* the underscore and the digit can only be the last two characters).
answerPattern(payload) ==
    LET n == Len(payload)
        p == Len(AnswerPrefix)
    IN  IF /\ n >= p + 3
           /\ SubSeq(payload, 1, p) = AnswerPrefix
           /\ payload[n - 1] = "_"
           /\ IsDigit(payload[n])
        THEN [matched |-> TRUE,
              questionId |-> SubSeq(payload, p + 1, n - 2),
              givenAnswerIndex |-> parseInt(payload[n])]
        ELSE [matched |-> FALSE, questionId |-> <<>>, givenAnswerIndex |-> Null]

\* A question of the store is about to be served: its id and the number of
\* its choices.
InitPayload ==
    /\ sessions = <<>>
    /\ tasks = [t \in Slots |-> IdleTask]
    /\ ctxSession = [u \in Users |-> NoSession]
    /\ activeQuestions = <<>>
    /\ \E id \in PayloadIds, n \in 1..MaxChoices :
          lastReply = [kind |-> "question", id |-> id, choices |-> n]
    /\ served = [u \in Users |-> {}]
    /\ instance = 0
    /\ budget = 2

\* The question is sent with its keyboard.
RenderKeyboard ==
    /\ lastReply.kind = "question"
    /\ budget' = budget - 1
    /\ lastReply' = [kind |-> "keyboard", id |-> lastReply.id,
                     buttons |-> createChoicesKeyboard(lastReply.choices,
                                                       lastReply.id)]
    /\ UNCHANGED <<sessions, tasks, ctxSession, activeQuestions, served,
                   instance>>

\* The user presses the button of choice index; the callback query carries
\* the button's payload and the handler's pattern is tried on it.
PressButton(index) ==
    /\ lastReply.kind = "keyboard"
    /\ index \in DOMAIN lastReply.buttons
    /\ budget' = budget - 1
    /\ lastReply' = [kind |-> "pressed", id |-> lastReply.id, index |-> index,
                     match |-> answerPattern(lastReply.buttons[index])]
    /\ UNCHANGED <<sessions, tasks, ctxSession, activeQuestions, served,
                   instance>>

NextPayload ==
    \/ RenderKeyboard
    \/ \E index \in 0..(MaxChoices - 1) : PressButton(index)

SpecPayload == InitPayload /\ [][NextPayload]_vars

\* C31: every button of a rendered keyboard, when pressed, is matched by
\* the answer handler's pattern and parsed back to the id of the question
\* and the index of the choice the button was rendered for.
C31_PayloadRoundTrip ==
    lastReply.kind = "pressed"
    => /\ lastReply.match.matched
       /\ lastReply.match.questionId = lastReply.id
       /\ lastReply.match.givenAnswerIndex = lastReply.index

\* The users that act in this step: the receiver of the reply the step
\* sends, and the user of a handler that moves.
Actors ==
    {u \in Users :
        \/ lastReply' # lastReply /\ lastReply'.to = u
        \/ \E t \in Slots :
              /\ tasks'[t] # tasks[t]
              /\ u \in {tasks[t].user, tasks'[t].user}}

PairingChanged(i) ==
    \/ (i \in DOMAIN activeQuestions) # (i \in DOMAIN activeQuestions')
    \/ /\ i \in DOMAIN activeQuestions
       /\ i \in DOMAIN activeQuestions'
       /\ activeQuestions'[i] # activeQuestions[i]

\* The session rows a step of the running process resolves or touches: the
\* rows it inserts or changes, the rows whose pairing it sets, the row its
\* reply reports and the rows its handlers hold.
Touched ==
    {i \in DOMAIN sessions' :
        \/ i \notin DOMAIN sessions
        \/ i \in DOMAIN sessions /\ sessions'[i] # sessions[i]
        \/ PairingChanged(i)
        \/ lastReply' # lastReply /\ lastReply'.sid = i
        \/ \E t \in Slots : tasks'[t] # tasks[t] /\ tasks'[t].sid = i}

\* C32: every session row that an event resolves, inserts, changes or
\* pairs with a question carries the id of the user who sent the event,
\* also when that user has no username; the session the process holds for
\* a user is a row of that user; and no user's look-up key equals the
\* handle stored for any user.
C32_SessionsAreIsolated ==
    [][/\ instance' = instance
          => \A i \in Touched : \A u \in Actors : sessions'[i].tg_id = IdStr(u)
       /\ \A u \in Users :
             ctxSession'[u] # NoSession
             => sessions'[ctxSession'[u]].tg_id = IdStr(u)
       /\ \A u \in Users, v \in Users : LookupKey(u) # Handle(v)]_vars

\* User 2, who has no username, is served a question on a row of their own
\* while a row of user 1 exists.
C32_Witness ==
    /\ Len(sessions) = 2
    /\ sessions[1].tg_id = IdStr(1)
    /\ sessions[2].tg_id = IdStr(2)
    /\ username(2) = NoUsername
    /\ lastReply.to = 2
    /\ lastReply.kind = "nextQuestion"
    /\ lastReply.sid = 2
    /\ 2 \in DOMAIN activeQuestions

-----------------------------------------------------------------------------
\* A quiz in progress: user 1 has selected mode 'mixed' and has answered
\* up to max_question questions on the session that the process holds for
\* them; one more event follows.

InitQuota ==
    /\ \E q \in 0..DefaultMaxQuestion, c \in 0..DefaultMaxQuestion :
          /\ c <= q
          /\ sessions = <<[NewModeRow(1, "mixed") EXCEPT !.questions = q,
                                                        !.correct = c]>>
    /\ tasks = [t \in Slots |-> IdleTask]
    /\ ctxSession = [u \in Users |-> IF u = 1 THEN 1 ELSE NoSession]
    /\ activeQuestions = <<>>
    /\ lastReply = NoReply
    /\ served = [u \in Users |-> IF u = 1 THEN QuestionIds ELSE {}]
    /\ instance = 0
    /\ budget = 1

SpecQuota == InitQuota /\ [][Next]_vars

\* C33: the questions counter of a session created with max_question = 10
\* never exceeds its max_question.
C33_QuestionsWithinMax ==
    \A i \in DOMAIN sessions :
        sessions[i].max_question = DefaultMaxQuestion
        => sessions[i].questions <= sessions[i].max_question

\* C34: a session for which a question has been selected, be it the
\* session of the last prompt or a session paired with a question, has one
\* of the modes mixed, dev, user.
C34_SelectionHasMode ==
    /\ lastReply.kind \in Prompts => sessions[lastReply.sid].mode \in Modes
    /\ \A i \in DOMAIN activeQuestions : sessions[i].mode \in Modes

=============================================================================
